---- MODULE Spec2Model ----
(***************************************************************************)
(* The card game of src/cards.py and src/game.py: Card, Deck, Player and   *)
(* Game.  The deck is the list pair (cards, pile); the two players hold    *)
(* hand1 and hand2 and share the one deck.                                 *)
(*                                                                         *)
(* The program's deck has 4 suits of 13 values (range(2, 15)), 52 cards,   *)
(* and shuffle() loops from 51.  The model keeps the four suits and makes  *)
(* the top value a bound, MaxValue: the deck has DeckSize = 4 *            *)
(* (MaxValue - 1) cards and every 52 / 51 of the source is DeckSize /      *)
(* DeckSize - 1.  With MaxValue = 14 the definitions are the program's.    *)
(***************************************************************************)
EXTENDS Integers, Sequences, FiniteSets, TLC

VARIABLES
    cards,      \* Deck.cards: the draw pile, front first
    pile,       \* Deck.pile: the discard pile, oldest first
    hand1,      \* Game.player1.hand
    hand2,      \* Game.player2.hand
    reorders,   \* number of shuffle() / play() / combine_deck_and_pile() calls so far,
                \* the calls the bounds count
    drawn,      \* cards returned by the successful Deck.draw_one() calls made
                \* since the last recombine, shuffle or sort
    args,       \* the arguments of a call on Card: the cards compared, or the
                \* suit and value a Card is constructed from
    win_count,  \* how many of the rounds played went to Player 1, to Player 2
                \* and to neither
    pc,         \* where a play() in progress stands: the statement it is at and
                \* the draws draw_cards has made
    quiet,      \* Game._quiet
    last        \* the last call: its name, player, error and results, the random
                \* choices it used, and the deck as it stood before the call

vars == <<cards, pile, hand1, hand2, reorders, drawn, args, win_count, pc, quiet, last>>

----------------------------------------------------------------------------
(* Bounds of the model *)

MaxValue == 3       \* top card value (the program: 14)
NumSeeds == 2       \* how many outcomes of the random source are explored
MaxReorders == 2    \* how many shuffle() / combine_deck_and_pile() calls a run makes
MaxPlays == 1       \* how many play() calls a run makes
MaxHand == 1        \* a player draws (Player.draw_one, Game.draw_cards) only with a hand shorter than this
ShuffleLen == 4     \* length of the lists shuffled under every choice sequence

----------------------------------------------------------------------------
(* Suit *)

SPADE == 1
DIAMOND == 2
HEART == 3
CLUB == 4

ALL_SUITS == {SPADE, DIAMOND, HEART, CLUB}

(* Card *)

MinValue == 2
Values == MinValue..MaxValue

Card(suit, value) == [suit |-> suit, value |-> value]

\* Card.__eq__
CardEq(a, b) == a.suit = b.suit /\ a.value = b.value

\* Card.__ne__, the negation of __eq__ that object gives
CardNe(a, b) == ~CardEq(a, b)

\* Card.__lt__ comparing the suits only
CardLt_SuitOnly(a, b) == a.suit < b.suit

\* Card.__lt__ comparing the value before the suit
CardLt_ValueMajor(a, b) ==
    IF a.value = b.value THEN a.suit < b.suit ELSE a.value < b.value

\* Card.__lt__
CardLt(a, b) == IF a.suit = b.suit THEN a.value < b.value ELSE a.suit < b.suit

\* The comparisons that total_ordering derives from __lt__ and __eq__
CardGt(a, b) == ~CardLt(a, b) /\ CardNe(a, b)

CardLe(a, b) == CardLt(a, b) \/ CardEq(a, b)

CardGe(a, b) == ~CardLt(a, b)

\* Card.points
Points(c) == c.suit * c.value

----------------------------------------------------------------------------
(* Python lists and sets *)

NoError == "none"
IndexError == "IndexError"     \* list.pop on an empty list or a bad index
AssertionError == "AssertionError"     \* an assert that fails

\* Card.__init__ takes a suit and a value [int |-> whether it is an instance
\* of int, n |-> its number], and makes its three asserts in their order.
MinCardValue == 2
MaxCardValue == 14

\* Card.__init__ without the upper limit on the value
CardInit_NoUpperLimit(suit, value) ==
    IF suit \notin ALL_SUITS THEN [err |-> AssertionError, ret |-> <<>>]
    ELSE IF ~value.int THEN [err |-> AssertionError, ret |-> <<>>]
    ELSE IF ~(MinCardValue <= value.n)
         THEN [err |-> AssertionError, ret |-> <<>>]
    ELSE [err |-> NoError, ret |-> <<Card(suit, value.n)>>]

\* Card.__init__
CardInit(suit, value) ==
    IF suit \notin ALL_SUITS THEN [err |-> AssertionError, ret |-> <<>>]
    ELSE IF ~value.int THEN [err |-> AssertionError, ret |-> <<>>]
    ELSE IF ~(MinCardValue <= value.n /\ value.n <= MaxCardValue)
         THEN [err |-> AssertionError, ret |-> <<>>]
    ELSE [err |-> NoError, ret |-> <<Card(suit, value.n)>>]

Range(s) == {s[k] : k \in 1..Len(s)}

\* list.pop(k), k counted from 0: the list without its k-th element
PopRest(s, k) == SubSeq(s, 1, k) \o SubSeq(s, k + 2, Len(s))
\* list.pop(k), k counted from 0: the element returned
PopItem(s, k) == s[k + 1]

\* a set iterated from its largest element down
RECURSIVE SetIter_Descending(_)
SetIter_Descending(S) ==
    IF S = {} THEN <<>>
    ELSE LET m == CHOOSE x \in S : \A y \in S : x >= y
         IN  <<m>> \o SetIter_Descending(S \ {m})

\* Iterating a set of small non-negative ints: CPython walks the hash table in
\* slot order and hash(n) = n, so the suits {1, 2, 3, 4} come out ascending.
RECURSIVE SetIter(_)
SetIter(S) ==
    IF S = {} THEN <<>>
    ELSE LET m == CHOOSE x \in S : \A y \in S : x <= y
         IN  <<m>> \o SetIter(S \ {m})

\* range(a, b) as a list
RangeList(a, b) == [k \in 1..(b - a) |-> a + k - 1]

\* sorted(): ascending by __lt__, stable (an element goes after those not greater)
RECURSIVE InsertSorted(_, _)
InsertSorted(s, c) ==
    IF s = <<>> THEN <<c>>
    ELSE IF CardLt(c, Head(s)) THEN <<c>> \o s
    ELSE <<Head(s)>> \o InsertSorted(Tail(s), c)

RECURSIVE Sorted(_)
Sorted(s) ==
    IF s = <<>> THEN <<>>
    ELSE InsertSorted(Sorted(SubSeq(s, 1, Len(s) - 1)), s[Len(s)])

----------------------------------------------------------------------------
(* Deck *)

\* [Card(a, b) for a in Suit.ALL_SUITS for b in range(2, 15)]
RECURSIVE ForSuits(_)
ForSuits(suits) ==
    IF suits = <<>> THEN <<>>
    ELSE LET vs == RangeList(MinValue, MaxValue + 1)
         IN  [k \in 1..Len(vs) |-> Card(Head(suits), vs[k])] \o ForSuits(Tail(suits))

NewCards == ForSuits(SetIter(ALL_SUITS))

\* the 52 of the program
DeckSize == Cardinality(ALL_SUITS) * Cardinality(Values)

\* Deck.__init__ and the two empty hands of Player.__init__
NewGame == [cards |-> NewCards, pile |-> <<>>, hand1 |-> <<>>, hand2 |-> <<>>]

\* What a call leaves behind: the state, the error raised (or none), the cards
\* returned, the winner returned, the draw pile a shuffle inside it produced.
Outcome(g, err) ==
    [g |-> g, err |-> err, ret |-> <<>>, winner |-> "", deal |-> <<>>, out |-> <<>>]

\* combine_deck_and_pile without the reset of the pile
CombineDeckAndPile_KeepsPile(g) == [g EXCEPT !.cards = g.cards \o g.pile]

\* combine_deck_and_pile putting the pile in front of the cards
CombineDeckAndPile_PileFirst(g) == [g EXCEPT !.cards = g.pile \o g.cards, !.pile = <<>>]

\* Deck.combine_deck_and_pile
CombineDeckAndPile(g) == [g EXCEPT !.cards = g.cards \o g.pile, !.pile = <<>>]

\* randint called with the deck size for i at every step
Randint_UpToDeckSize(seed, i) == (seed * seed + seed * i + (i \div 2)) % (DeckSize + 1)

\* random.randint(0, i): the random source is a family of index choices, one
\* choice function per seed; r[i] is what randint(0, i) returns.
Randint(seed, i) == (seed * seed + seed * i + (i \div 2)) % (i + 1)

RandomSource == {[i \in 0..(DeckSize - 1) |-> Randint(seed, i)] : seed \in 1..NumSeeds}

\* the shuffle loop reading the chosen card without removing it
RECURSIVE ShuffleLoop_Resample(_, _, _, _)
ShuffleLoop_Resample(old, new, i, r) ==
    IF i < 0 THEN [cards |-> new, err |-> NoError]
    ELSE IF r[i] >= Len(old) THEN [cards |-> old, err |-> IndexError]
    ELSE ShuffleLoop_Resample(old, Append(new, PopItem(old, r[i])), i - 1, r)

\* the shuffle loop with the index drawn below i (randrange(i) for randint(0, i))
RECURSIVE ShuffleLoop_BelowI(_, _, _, _)
ShuffleLoop_BelowI(old, new, i, r) ==
    LET k == IF i > 0 THEN r[i] % i ELSE 0
    IN  IF i < 0 THEN [cards |-> new, err |-> NoError]
        ELSE IF k >= Len(old) THEN [cards |-> old, err |-> IndexError]
        ELSE ShuffleLoop_BelowI(PopRest(old, k), Append(new, PopItem(old, k)), i - 1, r)

\* the shuffle loop putting each removed card in front of new_cards
RECURSIVE ShuffleLoop_Prepends(_, _, _, _)
ShuffleLoop_Prepends(old, new, i, r) ==
    IF i < 0 THEN [cards |-> new, err |-> NoError]
    ELSE IF r[i] >= Len(old) THEN [cards |-> old, err |-> IndexError]
    ELSE ShuffleLoop_Prepends(PopRest(old, r[i]), <<PopItem(old, r[i])>> \o new, i - 1, r)

\* The loop of Deck.shuffle from index i down to 0: old is self.cards, new is
\* new_cards.  A pop beyond the list raises, leaving self.cards as popped so far.
RECURSIVE ShuffleLoop(_, _, _, _)
ShuffleLoop(old, new, i, r) ==
    IF i < 0 THEN [cards |-> new, err |-> NoError]
    ELSE IF r[i] >= Len(old) THEN [cards |-> old, err |-> IndexError]
    ELSE ShuffleLoop(PopRest(old, r[i]), Append(new, PopItem(old, r[i])), i - 1, r)

\* shuffle without the recombination
Shuffle_NoCombine(g, r) ==
    LET s == ShuffleLoop(g.cards, <<>>, DeckSize - 1, r)
    IN  [Outcome([g EXCEPT !.cards = s.cards], s.err) EXCEPT !.deal = s.cards]

\* Deck.shuffle
Shuffle(g, r) ==
    LET c == CombineDeckAndPile(g)
        s == ShuffleLoop(c.cards, <<>>, DeckSize - 1, r)
    IN  [Outcome([c EXCEPT !.cards = s.cards], s.err) EXCEPT !.deal = s.cards]

\* draw_one taking the last card of the draw pile (pop() for pop(0))
DeckDrawOne_TakesLast(g) ==
    IF g.cards = <<>> THEN Outcome(g, IndexError)
    ELSE LET next_card == PopItem(g.cards, Len(g.cards) - 1)
         IN  [Outcome([g EXCEPT !.cards = PopRest(g.cards, Len(g.cards) - 1),
                                !.pile = Append(g.pile, next_card)], NoError)
                 EXCEPT !.ret = <<next_card>>]

\* draw_one returning nothing, without an error, on an empty draw pile
DeckDrawOne_SilentOnEmpty(g) ==
    IF g.cards = <<>> THEN Outcome(g, NoError)
    ELSE LET next_card == PopItem(g.cards, 0)
         IN  [Outcome([g EXCEPT !.cards = PopRest(g.cards, 0),
                                !.pile = Append(g.pile, next_card)], NoError)
                 EXCEPT !.ret = <<next_card>>]

\* draw_one reading the front card and leaving it in the draw pile
DeckDrawOne_KeepsCard(g) ==
    IF g.cards = <<>> THEN Outcome(g, IndexError)
    ELSE LET next_card == g.cards[1]
         IN  [Outcome([g EXCEPT !.pile = Append(g.pile, next_card)], NoError)
                 EXCEPT !.ret = <<next_card>>]

\* Deck.draw_one
DeckDrawOne(g) ==
    IF g.cards = <<>> THEN Outcome(g, IndexError)
    ELSE LET next_card == PopItem(g.cards, 0)
         IN  [Outcome([g EXCEPT !.cards = PopRest(g.cards, 0),
                                !.pile = Append(g.pile, next_card)], NoError)
                 EXCEPT !.ret = <<next_card>>]

\* Deck.sort
Sort(g) ==
    LET c == CombineDeckAndPile(g)
    IN  [c EXCEPT !.cards = Sorted(c.cards)]

----------------------------------------------------------------------------
(* Player *)

Hand(g, p) == IF p = 1 THEN g.hand1 ELSE g.hand2

SetHand(g, p, h) == IF p = 1 THEN [g EXCEPT !.hand1 = h] ELSE [g EXCEPT !.hand2 = h]

\* draw_one putting the drawn card at the front of the hand
PlayerDrawOne_AtFront(g, p) ==
    LET d == DeckDrawOne(g)
    IN  IF d.err # NoError THEN d
        ELSE [d EXCEPT !.g = SetHand(d.g, p, <<d.ret[1]>> \o Hand(d.g, p))]

\* Player.draw_one: an error of Deck.draw_one propagates before the append
PlayerDrawOne(g, p) ==
    LET d == DeckDrawOne(g)
    IN  IF d.err # NoError THEN d
        ELSE [d EXCEPT !.g = SetHand(d.g, p, Append(Hand(d.g, p), d.ret[1]))]

\* reset emptying the hands of both players
PlayerReset_BothHands(g, p) == [g EXCEPT !.hand1 = <<>>, !.hand2 = <<>>]

\* Player.reset
PlayerReset(g, p) == SetHand(g, p, <<>>)

\* hand_value adding up the values of the cards, not their points
RECURSIVE HandValue_SumsValues(_)
HandValue_SumsValues(hand) ==
    IF hand = <<>> THEN 0 ELSE Head(hand).value + HandValue_SumsValues(Tail(hand))

\* Player.hand_value
RECURSIVE HandValue(_)
HandValue(hand) ==
    IF hand = <<>> THEN 0 ELSE Points(Head(hand)) + HandValue(Tail(hand))

(* Game *)

Player1 == "player1"
Player2 == "player2"
None == "None"

DealRounds == 3

\* the cards a round deals
DealCount == 2 * DealRounds

\* draw_cards with Player 2 drawing before Player 1
RECURSIVE DrawCardsLoop_Player2First(_, _, _)
DrawCardsLoop_Player2First(g, n, ret) ==
    IF n = 0 THEN [Outcome(g, NoError) EXCEPT !.ret = ret]
    ELSE LET d1 == PlayerDrawOne(g, 2)
             d2 == PlayerDrawOne(d1.g, 1)
         IN  IF d1.err # NoError THEN [d1 EXCEPT !.ret = ret]
             ELSE IF d2.err # NoError THEN [d2 EXCEPT !.ret = ret \o d1.ret]
             ELSE DrawCardsLoop_Player2First(d2.g, n - 1, ret \o d1.ret \o d2.ret)

\* Game.draw_cards: n rounds left of the loop, ret the cards drawn so far.  An
\* error of a draw ends the call where it stands.
RECURSIVE DrawCardsLoop(_, _, _)
DrawCardsLoop(g, n, ret) ==
    IF n = 0 THEN [Outcome(g, NoError) EXCEPT !.ret = ret]
    ELSE LET d1 == PlayerDrawOne(g, 1)
             d2 == PlayerDrawOne(d1.g, 2)
         IN  IF d1.err # NoError THEN [d1 EXCEPT !.ret = ret]
             ELSE IF d2.err # NoError THEN [d2 EXCEPT !.ret = ret \o d1.ret]
             ELSE DrawCardsLoop(d2.g, n - 1, ret \o d1.ret \o d2.ret)

DrawCards(g) == DrawCardsLoop(g, DealRounds, <<>>)

\* compare_hands giving a tie to Player 1 (>= for >, != dropped)
CompareHands_TieToPlayer1(g) ==
    LET points1 == HandValue(g.hand1)
        points2 == HandValue(g.hand2)
        winner == IF points1 >= points2 THEN Player1 ELSE Player2
    IN  [Outcome(g, NoError) EXCEPT !.winner = winner]

\* compare_hands giving a tie to Player 2 (a plain else for the != test)
CompareHands_TieToPlayer2(g) ==
    LET points1 == HandValue(g.hand1)
        points2 == HandValue(g.hand2)
        winner == IF points1 > points2 THEN Player1 ELSE Player2
    IN  [Outcome(g, NoError) EXCEPT !.winner = winner]

\* Game.compare_hands
CompareHands(g) ==
    LET points1 == HandValue(g.hand1)
        points2 == HandValue(g.hand2)
        winner == IF points1 # points2
                  THEN (IF points1 > points2 THEN Player1 ELSE Player2)
                  ELSE None
    IN  [Outcome(g, NoError) EXCEPT !.winner = winner]

\* play without the two resets
Play_KeepsHands(g, r) ==
    LET s == Shuffle(g, r)
        d == DrawCards(s.g)
        c == CompareHands(d.g)
    IN  IF s.err # NoError THEN s
        ELSE IF d.err # NoError THEN [d EXCEPT !.deal = s.deal]
        ELSE [c EXCEPT !.deal = s.deal, !.ret = d.ret]

\* Game.play
Play(g, r) ==
    LET s == Shuffle(PlayerReset(PlayerReset(g, 1), 2), r)
        d == DrawCards(s.g)
        c == CompareHands(d.g)
    IN  IF s.err # NoError THEN s
        ELSE IF d.err # NoError THEN [d EXCEPT !.deal = s.deal]
        ELSE [c EXCEPT !.deal = s.deal, !.ret = d.ret]

\* What the game prints.  A message is the tuple of its text and the values
\* formatted into it.
DrawCardsPrints(ret, q) ==
    IF q THEN <<>>
    ELSE [k \in 1..(2 * (Len(ret) \div 2)) |->
             IF k % 2 = 1 THEN <<"Player 1 draws", ret[k]>>
             ELSE <<"Player 2 draws", ret[k]>>]

\* compare_hands naming Player 1 the winner whenever points1 >= points2
CompareHandsPrints_WinsOnTie(g, q) ==
    LET points1 == HandValue(g.hand1)
        points2 == HandValue(g.hand2)
    IN  IF q THEN <<>>
        ELSE <<<<"Player 1 scores", points1>>, <<"Player 2 scores", points2>>,
               IF points1 >= points2 THEN <<"Player 1 wins!">>
               ELSE <<"Player 2 wins!">>>>

\* the prints of compare_hands
CompareHandsPrints(g, q) ==
    LET points1 == HandValue(g.hand1)
        points2 == HandValue(g.hand2)
    IN  (IF ~q
         THEN <<<<"Player 1 scores", points1>>, <<"Player 2 scores", points2>>>>
         ELSE <<>>)
        \o (IF points1 # points2
            THEN (IF ~q
                  THEN <<IF points1 >= points2 THEN <<"Player 1 wins!">>
                         ELSE <<"Player 2 wins!">>>>
                  ELSE <<>>)
            ELSE (IF ~q THEN <<<<"Players tie and there is no winner!">>>> ELSE <<>>))

\* Game.draw_cards, Game.compare_hands and Game.play of a game with _quiet = q
GameDrawCards(g, q) ==
    LET d == DrawCards(g)
    IN  [d EXCEPT !.out = DrawCardsPrints(d.ret, q)]

GameCompareHands(g, q) == [CompareHands(g) EXCEPT !.out = CompareHandsPrints(g, q)]

GamePlay(g, r, q) ==
    LET o == Play(g, r)
    IN  [o EXCEPT !.out = DrawCardsPrints(o.ret, q)
                             \o (IF o.err = NoError THEN CompareHandsPrints(o.g, q)
                                 ELSE <<>>)]

----------------------------------------------------------------------------
(* State machine *)

\* no play() in progress
Idle == [at |-> "idle", n |-> 0]

NoWins == [w \in {Player1, Player2, None} |-> 0]

NoCall == [op |-> "new", who |-> 0, err |-> NoError, ret |-> <<>>, winner |-> "",
           deal |-> <<>>, out |-> <<>>, rand |-> <<>>,
           before |-> [cards |-> <<>>, pile |-> <<>>, len1 |-> 0, len2 |-> 0]]

Init ==
    /\ cards = NewGame.cards
    /\ pile = NewGame.pile
    /\ hand1 = NewGame.hand1
    /\ hand2 = NewGame.hand2
    /\ reorders = 0
    /\ drawn = <<>>
    /\ args = <<>>
    /\ win_count = NoWins
    /\ pc = Idle
    /\ quiet = TRUE
    /\ last = NoCall

Game == [cards |-> cards, pile |-> pile, hand1 |-> hand1, hand2 |-> hand2]

\* The call op (of player who, with the random choices rand) ended as o
Records(op, who, rand, o) ==
    /\ cards' = o.g.cards
    /\ pile' = o.g.pile
    /\ hand1' = o.g.hand1
    /\ hand2' = o.g.hand2
    /\ last' = [op |-> op, who |-> who, err |-> o.err, ret |-> o.ret,
                winner |-> o.winner, deal |-> o.deal, out |-> o.out, rand |-> rand,
                before |-> [cards |-> cards, pile |-> pile,
                            len1 |-> Len(hand1), len2 |-> Len(hand2)]]

\* The call op made from outside play()
Becomes(op, who, rand, o) ==
    /\ Records(op, who, rand, o)
    /\ UNCHANGED <<args, win_count, pc, quiet>>

DoDeckShuffle ==
    /\ reorders < MaxReorders
    /\ \E r \in RandomSource : Becomes("Deck.shuffle", 0, r, Shuffle(Game, r))
    /\ reorders' = reorders + 1
    /\ drawn' = <<>>

DoDeckDrawOne ==
    /\ Becomes("Deck.draw_one", 0, <<>>, DeckDrawOne(Game))
    /\ drawn' = drawn \o last'.ret
    /\ UNCHANGED reorders

DoDeckSort ==
    /\ Becomes("Deck.sort", 0, <<>>, Outcome(Sort(Game), NoError))
    /\ drawn' = <<>>
    /\ UNCHANGED reorders

DoDeckCombine ==
    /\ reorders < MaxReorders
    /\ Becomes("Deck.combine_deck_and_pile", 0, <<>>,
               Outcome(CombineDeckAndPile(Game), NoError))
    /\ reorders' = reorders + 1
    /\ drawn' = <<>>

DeckNext ==
    \/ DoDeckShuffle
    \/ DoDeckDrawOne
    \/ DoDeckSort
    \/ DoDeckCombine

DeckSpec == Init /\ [][DeckNext]_vars

DoPlayerDrawOne(p) ==
    /\ Len(Hand(Game, p)) < MaxHand
    /\ Becomes("Player.draw_one", p, <<>>, PlayerDrawOne(Game, p))
    /\ drawn' = drawn \o last'.ret
    /\ UNCHANGED reorders

DoPlayerReset(p) ==
    /\ Becomes("Player.reset", p, <<>>, Outcome(PlayerReset(Game, p), NoError))
    /\ UNCHANGED <<reorders, drawn>>

DoDrawCards ==
    /\ Len(hand1) < MaxHand
    /\ Len(hand2) < MaxHand
    /\ Becomes("Game.draw_cards", 0, <<>>, GameDrawCards(Game, quiet))
    /\ drawn' = drawn \o last'.ret
    /\ UNCHANGED reorders

DoCompareHands ==
    /\ Becomes("Game.compare_hands", 0, <<>>, GameCompareHands(Game, quiet))
    /\ UNCHANGED <<reorders, drawn>>

DoPlay ==
    /\ reorders < MaxPlays
    /\ \E r \in RandomSource : Becomes("Game.play", 0, r, GamePlay(Game, r, quiet))
    /\ reorders' = reorders + 1
    /\ drawn' = last'.ret

Next ==
    \/ DoDeckDrawOne
    \/ DoPlayerDrawOne(1)
    \/ DoPlayerDrawOne(2)
    \/ DoPlayerReset(1)
    \/ DoPlayerReset(2)
    \/ DoDrawCards
    \/ DoCompareHands
    \/ DoPlay

Spec == Init /\ [][Next]_vars

\* Every public operation on the one Game: the players, the game and the
\* shared deck called directly.
\* The pool is bounded: MaxPlays plays and direct recombinations in all, and no
\* draw once the discard pile holds more than MaxHand cards.
PoolDraws == Len(pile) < MaxHand + 1

DoPoolShuffle == reorders < MaxPlays /\ DoDeckShuffle

DoPoolCombine == reorders < MaxPlays /\ DoDeckCombine

DoPoolSort ==
    /\ reorders < MaxPlays
    /\ Becomes("Deck.sort", 0, <<>>, Outcome(Sort(Game), NoError))
    /\ reorders' = reorders + 1
    /\ drawn' = <<>>

DoPoolDeckDrawOne == PoolDraws /\ DoDeckDrawOne

DoPoolPlayerDrawOne(p) == PoolDraws /\ DoPlayerDrawOne(p)

DoPoolDrawCards == PoolDraws /\ DoDrawCards

PoolNext ==
    \/ DoPoolShuffle
    \/ DoPoolDeckDrawOne
    \/ DoPoolSort
    \/ DoPoolCombine
    \/ DoPoolPlayerDrawOne(1)
    \/ DoPoolPlayerDrawOne(2)
    \/ DoPlayerReset(1)
    \/ DoPlayerReset(2)
    \/ DoPoolDrawCards
    \/ DoPlay

PoolSpec == Init /\ [][PoolNext]_vars

\* The two players drawing from the new deck and giving their hands back, with
\* hands of up to MaxHand + 1 cards and the deck drawn from directly.
DoHandDrawOne(p) ==
    /\ Len(Hand(Game, p)) <= MaxHand
    /\ Becomes("Player.draw_one", p, <<>>, PlayerDrawOne(Game, p))
    /\ drawn' = drawn \o last'.ret
    /\ UNCHANGED reorders

\* reading player p's hand_value
DoHandValue(p) ==
    /\ Becomes("Player.hand_value", p, <<>>,
               [Outcome(Game, NoError) EXCEPT !.ret = <<HandValue(Hand(Game, p))>>])
    /\ UNCHANGED <<reorders, drawn>>

HandNext ==
    \/ DoDeckDrawOne
    \/ DoHandDrawOne(1)
    \/ DoHandDrawOne(2)
    \/ DoPlayerReset(1)
    \/ DoPlayerReset(2)
    \/ DoHandValue(1)
    \/ DoHandValue(2)

HandSpec == Init /\ [][HandNext]_vars

----------------------------------------------------------------------------
(* Card on its own: construction from any suit and value, and the comparisons
   of any three of the 52 cards *)

\* the 52 cards
CardSet == {Card(suit, value) : suit \in ALL_SUITS, value \in MinCardValue..MaxCardValue}

\* the suits and values tried: the numbers around the valid ones, and values
\* that are not ints
SuitInputs == (SPADE - 2)..(CLUB + 2)
ValueInputs == [int : BOOLEAN, n : (MinCardValue - 3)..(MaxCardValue + 3)]

CardSpecInit ==
    /\ cards = NewGame.cards
    /\ pile = NewGame.pile
    /\ hand1 = NewGame.hand1
    /\ hand2 = NewGame.hand2
    /\ reorders = 0
    /\ drawn = <<>>
    /\ \/ args \in {<<a, b, c>> : a \in CardSet, b \in CardSet, c \in CardSet}
       \/ args \in {<<suit, value>> : suit \in SuitInputs, value \in ValueInputs}
    /\ win_count = NoWins
    /\ pc = Idle
    /\ quiet = TRUE
    /\ last = NoCall

\* every comparison of args[i] with args[j]
DoCardCompare ==
    /\ last.op = "new"
    /\ Len(args) = 3
    /\ last' = [NoCall EXCEPT
                  !.op = "Card.compare",
                  !.ret = [i \in 1..3 |-> [j \in 1..3 |->
                              [lt |-> CardLt(args[i], args[j]),
                               eq |-> CardEq(args[i], args[j]),
                               ne |-> CardNe(args[i], args[j]),
                               le |-> CardLe(args[i], args[j]),
                               gt |-> CardGt(args[i], args[j]),
                               ge |-> CardGe(args[i], args[j])]]]]
    /\ UNCHANGED <<cards, pile, hand1, hand2, reorders, drawn, args, win_count, pc, quiet>>

\* Card(suit, value)
DoCardInit ==
    /\ last.op = "new"
    /\ Len(args) = 2
    /\ LET c == CardInit(args[1], args[2])
       IN  last' = [NoCall EXCEPT !.op = "Card", !.err = c.err, !.ret = c.ret]
    /\ UNCHANGED <<cards, pile, hand1, hand2, reorders, drawn, args, win_count, pc, quiet>>

CardNext ==
    \/ DoCardCompare
    \/ DoCardInit

CardSpec == CardSpecInit /\ [][CardNext]_vars

----------------------------------------------------------------------------
(* A round of play() on a new game for every deal the shuffle can give *)

\* n * (n - 1) * ... over k factors
RECURSIVE Falling(_, _)
Falling(n, k) == IF k = 0 THEN 1 ELSE n * Falling(n - 1, k - 1)

\* The deals of the first DealCount cards of the shuffled deck.  Each stands
\* for as many orderings of the deck as any other: those that begin with it.
NumDeals == Falling(DeckSize, DealCount)

\* The choices of randint that give deal number k: step i of the shuffle loop,
\* i = DeckSize - 1 - j, takes digit j of k written with the radices DeckSize,
\* DeckSize - 1, ...; the steps after the deal take index 0.
ChoicesOfDeal(k) ==
    [i \in 0..(DeckSize - 1) |->
        LET j == (DeckSize - 1) - i
        IN  IF j < DealCount THEN (k \div Falling(DeckSize, j)) % (i + 1) ELSE 0]

\* play() on a new game whose shuffle gives deal number reorders, and the
\* tally of the winner
DoFairPlay ==
    /\ reorders < NumDeals
    /\ \E r \in {ChoicesOfDeal(reorders)} : \E o \in {GamePlay(NewGame, r, quiet)} :
           /\ cards' = o.g.cards
           /\ pile' = o.g.pile
           /\ hand1' = o.g.hand1
           /\ hand2' = o.g.hand2
           /\ drawn' = o.ret
           /\ win_count' = [win_count EXCEPT ![o.winner] = @ + 1]
           /\ last' = [op |-> "Game.play", who |-> 0, err |-> o.err, ret |-> o.ret,
                       winner |-> o.winner, deal |-> o.deal, out |-> o.out, rand |-> r,
                       before |-> [cards |-> NewGame.cards, pile |-> NewGame.pile,
                                   len1 |-> 0, len2 |-> 0]]
    /\ reorders' = reorders + 1
    /\ UNCHANGED <<args, pc, quiet>>

FairNext == DoFairPlay

FairSpec == Init /\ [][FairNext]_vars

----------------------------------------------------------------------------
(* play() statement by statement.  The program has one thread: while a play()
   is in progress no other call is made. *)

At(statement) == [at |-> statement, n |-> 0]

\* draw_cards with player 1 making every draw
Drawer_AlwaysPlayer1(n) == 1

\* the player who makes draw number n (from 0) of draw_cards
Drawer(n) == IF n % 2 = 0 THEN 1 ELSE 2

\* the calls made between two rounds
DoRoundDrawOne(p) == pc = Idle /\ DoPlayerDrawOne(p)

DoRoundDeckDrawOne == pc = Idle /\ DoDeckDrawOne

DoRoundDrawCards == pc = Idle /\ DoDrawCards

\* self.player1.reset()
DoPlayReset1 ==
    /\ pc = Idle
    /\ reorders < MaxReorders
    /\ Records("Player.reset", 1, <<>>, Outcome(PlayerReset(Game, 1), NoError))
    /\ pc' = At("player2.reset")
    /\ UNCHANGED <<reorders, drawn, args, win_count, quiet>>

\* self.player2.reset()
DoPlayReset2 ==
    /\ pc = At("player2.reset")
    /\ Records("Player.reset", 2, <<>>, Outcome(PlayerReset(Game, 2), NoError))
    /\ pc' = At("deck.shuffle")
    /\ UNCHANGED <<reorders, drawn, args, win_count, quiet>>

\* self.deck.shuffle()
DoPlayShuffle ==
    /\ pc = At("deck.shuffle")
    /\ \E r \in RandomSource : Records("Deck.shuffle", 0, r, Shuffle(Game, r))
    /\ pc' = IF last'.err # NoError THEN Idle ELSE At("draw_cards")
    /\ reorders' = reorders + 1
    /\ drawn' = <<>>
    /\ UNCHANGED <<args, win_count, quiet>>

\* one draw_one() of the loop of draw_cards; an error ends play()
DoPlayDraw ==
    /\ pc.at = "draw_cards"
    /\ pc.n < DealCount
    /\ LET d == PlayerDrawOne(Game, Drawer(pc.n))
       IN  Records("Player.draw_one", Drawer(pc.n), <<>>,
                   [d EXCEPT !.out = IF d.err = NoError /\ pc.n % 2 = 1
                                     THEN DrawCardsPrints(last.ret \o d.ret, quiet)
                                     ELSE <<>>])
    /\ pc' = IF last'.err # NoError THEN Idle ELSE [pc EXCEPT !.n = @ + 1]
    /\ drawn' = drawn \o last'.ret
    /\ UNCHANGED <<reorders, args, win_count, quiet>>

\* winner = self.compare_hands(), the loop of draw_cards being over
DoPlayCompare ==
    /\ pc.at = "draw_cards"
    /\ pc.n = DealCount
    /\ Records("Game.compare_hands", 0, <<>>, GameCompareHands(Game, quiet))
    /\ pc' = At("return")
    /\ UNCHANGED <<reorders, drawn, args, win_count, quiet>>

\* return winner
DoPlayReturn ==
    /\ pc = At("return")
    /\ last' = [last EXCEPT !.op = "Game.play"]
    /\ pc' = Idle
    /\ UNCHANGED <<cards, pile, hand1, hand2, reorders, drawn, args, win_count, quiet>>

RoundNext ==
    \/ DoRoundDrawOne(1)
    \/ DoRoundDrawOne(2)
    \/ DoRoundDeckDrawOne
    \/ DoRoundDrawCards
    \/ DoPlayReset1
    \/ DoPlayReset2
    \/ DoPlayShuffle
    \/ DoPlayDraw
    \/ DoPlayCompare
    \/ DoPlayReturn

RoundSpec == Init /\ [][RoundNext]_vars

----------------------------------------------------------------------------
(* The game with its messages: Game(quiet) made quiet or not *)

TalkInit ==
    /\ cards = NewGame.cards
    /\ pile = NewGame.pile
    /\ hand1 = NewGame.hand1
    /\ hand2 = NewGame.hand2
    /\ reorders = 0
    /\ drawn = <<>>
    /\ args = <<>>
    /\ win_count = NoWins
    /\ pc = Idle
    /\ quiet \in BOOLEAN
    /\ last = NoCall

TalkNext ==
    \/ DoPlayerDrawOne(1)
    \/ DoPlayerDrawOne(2)
    \/ DoDeckDrawOne
    \/ DoDrawCards
    \/ DoCompareHands
    \/ DoPlay

TalkSpec == TalkInit /\ [][TalkNext]_vars

----------------------------------------------------------------------------
(* Shuffling a short list under every outcome of the random source *)

\* Deck.shuffle's loop on a deck of Len(cs) cards (51 is Len(cs) - 1 there)
ShuffleList(cs, r) == ShuffleLoop(cs, <<>>, Len(cs) - 1, r)

\* every sequence of randint(0, i) results, i = n - 1 .. 0
Choices(n) == {r \in [0..(n - 1) -> 0..(n - 1)] : \A i \in 0..(n - 1) : r[i] <= i}

\* every ordering of the list cs
Orderings(cs) == {[k \in 1..Len(cs) |-> cs[f[k]]] : f \in Permutations(1..Len(cs))}

ShuffleInit ==
    /\ cards \in Orderings(SubSeq(NewCards, 1, ShuffleLen))
    /\ pile = <<>>
    /\ hand1 = <<>>
    /\ hand2 = <<>>
    /\ reorders = 0
    /\ drawn = <<>>
    /\ args = <<>>
    /\ win_count = NoWins
    /\ pc = Idle
    /\ quiet = TRUE
    /\ last = NoCall

DoShuffleList ==
    /\ \E r \in Choices(Len(cards)) :
          LET s == ShuffleList((CombineDeckAndPile(Game)).cards, r)
          IN  Becomes("Deck.shuffle", 0, r,
                      [Outcome([Game EXCEPT !.cards = s.cards], s.err)
                          EXCEPT !.deal = s.cards])
    /\ UNCHANGED <<reorders, drawn>>

ShuffleNext == DoShuffleList

ShuffleSpec == ShuffleInit /\ [][ShuffleNext]_vars

----------------------------------------------------------------------------
(* Properties *)

\* ALL_CARDS of src/test/test_cards.py: Spades, Diamonds, Hearts, Clubs, each
\* from 2 up
ALL_CARDS ==
    [k \in 1..DeckSize |->
        Card(<<SPADE, DIAMOND, HEART, CLUB>>[((k - 1) \div Cardinality(Values)) + 1],
             MinValue + ((k - 1) % Cardinality(Values)))]

Count(s, c) == Cardinality({k \in 1..Len(s) : s[k] = c})

\* a and b hold the same cards, each as often
SameCards(a, b) == \A c \in Range(a) \cup Range(b) : Count(a, c) = Count(b, c)

\* the last n entries of s
LastN(s, n) == SubSeq(s, Len(s) - n + 1, Len(s))

\* the deck as it stood when the last call was made
Before == last.before

\* C1: in every state reachable by shuffle, draw_one (successful or failing),
\* sort and combine_deck_and_pile, the two piles hold DeckSize (52) cards and
\* every (suit, value) combination exactly once.
C1_DeckIsTheCanonicalCards ==
    /\ Len(cards) + Len(pile) = DeckSize
    /\ \A suit \in ALL_SUITS : \A value \in Values :
          Count(cards \o pile, Card(suit, value)) = 1

C1_Witness ==
    /\ last.op = "Deck.draw_one"
    /\ last.err # NoError
    /\ reorders = MaxReorders
    /\ cards \o pile # ALL_CARDS

\* C2: draw_one on a non-empty draw pile returns the front card, removes exactly
\* that card and appends it to the discard pile; the cards returned by the draws
\* made since the last recombine, shuffle or sort are the end of the discard
\* pile, in the order drawn.
C2_DrawOneTakesTheFront ==
    /\ Len(drawn) <= Len(pile)
    /\ LastN(pile, Len(drawn)) = drawn
    /\ (last.op = "Deck.draw_one" /\ Before.cards # <<>>) =>
          /\ last.err = NoError
          /\ last.ret = <<Head(Before.cards)>>
          /\ cards = Tail(Before.cards)
          /\ pile = Append(Before.pile, Head(Before.cards))

C2_Witness ==
    /\ last.op = "Deck.draw_one"
    /\ last.err = NoError
    /\ reorders > 0
    /\ Len(drawn) >= 3
    /\ cards # <<>>

\* C3: draw_one on an empty draw pile fails (the EmptyDeck error is the
\* IndexError that list.pop raises) and leaves both piles as they were.
C3_DrawOneOnEmptyFails ==
    (last.op = "Deck.draw_one" /\ Before.cards = <<>>) =>
        /\ last.err = IndexError
        /\ last.ret = <<>>
        /\ cards = Before.cards
        /\ pile = Before.pile

C3_Witness ==
    /\ last.op = "Deck.draw_one"
    /\ Before.cards = <<>>
    /\ Len(Before.pile) = DeckSize

\* C4: after shuffle the discard pile is empty and the draw pile holds all
\* DeckSize cards, a permutation of the cards of the two piles before the call.
C4_ShuffleIsPermutation ==
    last.op = "Deck.shuffle" =>
        /\ last.err = NoError
        /\ pile = <<>>
        /\ Len(cards) = DeckSize
        /\ SameCards(cards, Before.cards \o Before.pile)

C4_Witness ==
    /\ last.op = "Deck.shuffle"
    /\ reorders = MaxReorders
    /\ Before.pile # <<>>
    /\ Before.cards # <<>>
    /\ cards # Before.cards \o Before.pile

\* C5: the map from the sequences of per-step index choices to the resulting
\* draw pile is a bijection onto the orderings of the deck: the order a shuffle
\* produced comes from exactly one choice sequence, and every ordering comes
\* from some choice sequence.
C5_ShuffleIsBijection ==
    last.op = "Deck.shuffle" =>
        LET in == Before.cards \o Before.pile
        IN  /\ {r \in Choices(Len(in)) : ShuffleList(in, r).cards = cards} = {last.rand}
            /\ {ShuffleList(in, r).cards : r \in Choices(Len(in))} = Orderings(in)

C5_Witness ==
    /\ last.op = "Deck.shuffle"
    /\ Len(cards) = ShuffleLen
    /\ cards # Before.cards
    /\ \E i \in DOMAIN last.rand : last.rand[i] # 0 /\ last.rand[i] # i

\* C6: sort from any state leaves the discard pile empty and the draw pile the
\* canonical ascending sequence, also right after a shuffle.
C6_SortRestoresCanonical ==
    last.op = "Deck.sort" => (pile = <<>> /\ cards = ALL_CARDS)

C6_Witness ==
    /\ last.op = "Deck.sort"
    /\ Before.pile # <<>>
    /\ Before.cards \o Before.pile # ALL_CARDS
    /\ reorders > 0

\* C7: a new Deck has the DeckSize canonical cards in the draw pile, none twice,
\* none in the discard pile, ascending by the Card order: its i-th card is the
\* i-th card of the canonical sequence.
C7_NewDeckIsSorted ==
    last.op = "new" =>
        /\ pile = <<>>
        /\ Len(cards) = DeckSize
        /\ \A suit \in ALL_SUITS : \A value \in Values :
              Count(cards, Card(suit, value)) = 1
        /\ \A i \in 1..(Len(cards) - 1) : CardLt(cards[i], cards[i + 1])
        /\ \A i \in 1..DeckSize : CardEq(cards[i], ALL_CARDS[i])

C7_Witness ==
    /\ last.op = "new"
    /\ reorders = 0
    /\ Len(cards) > 1

\* C8: play deals in strict alternation starting with Player 1: with d the draw
\* pile the shuffle inside play produced, Player 1 holds d0, d2, d4, Player 2
\* holds d1, d3, d5, the discard pile is d0..d5 and the draw pile the rest,
\* whatever the hands and piles held before.
C8_PlayDealsAlternately ==
    last.op = "Game.play" =>
        LET d == last.deal
        IN  /\ Len(d) = DeckSize
            /\ SameCards(d, Before.cards \o Before.pile)
            /\ hand1 = <<d[1], d[3], d[5]>>
            /\ hand2 = <<d[2], d[4], d[6]>>
            /\ pile = SubSeq(d, 1, DealCount)
            /\ cards = SubSeq(d, DealCount + 1, DeckSize)
            /\ last.ret = pile

C8_Witness ==
    /\ last.op = "Game.play"
    /\ Before.len1 > 0
    /\ Before.len2 > 0
    /\ Before.pile # <<>>
    /\ last.deal # Before.cards \o Before.pile

\* C9: compare_hands returns Player 1 exactly when hand 1 is worth more,
\* Player 2 exactly when hand 2 is worth more and None exactly when the totals
\* are equal; it never fails; what play returns obeys the same rule for the
\* hands held when it returns.
C9_WinnerIsTheHigherHand ==
    /\ last.op = "Game.compare_hands" => last.err = NoError
    /\ (last.op \in {"Game.compare_hands", "Game.play"} /\ last.err = NoError) =>
          /\ last.winner \in {Player1, Player2, None}
          /\ last.winner = Player1 <=> HandValue(hand1) > HandValue(hand2)
          /\ last.winner = Player2 <=> HandValue(hand2) > HandValue(hand1)
          /\ last.winner = None <=> HandValue(hand1) = HandValue(hand2)

C9_Witness ==
    /\ last.op = "Game.compare_hands"
    /\ hand1 # <<>>
    /\ hand1 # hand2
    /\ last.winner = None

\* C10: play never fails, from every state earlier play, draw_cards,
\* Player.draw_one and Deck.draw_one calls lead to, an exhausted draw pile
\* included: it leaves 3 cards in each hand, DeckSize - 6 (46) in the draw pile
\* and 6 in the discard pile.
C10_PlayNeverFails ==
    last.op = "Game.play" =>
        /\ last.err = NoError
        /\ Len(hand1) = DealRounds
        /\ Len(hand2) = DealRounds
        /\ Len(cards) = DeckSize - DealCount
        /\ Len(pile) = DealCount

C10_Witness ==
    /\ last.op = "Game.play"
    /\ last.err = NoError
    /\ Before.cards = <<>>
    /\ Before.len1 + Before.len2 > 0

\* C11: no partial-failure state: a call that fails leaves both hands and both
\* piles exactly as they were before it; in particular draw_cards called with
\* fewer than six cards in the draw pile.
C11_FailureLeavesStateUnchanged ==
    [][last'.err # NoError =>
          (cards' = cards /\ pile' = pile /\ hand1' = hand1 /\ hand2' = hand2)]_vars

\* C12: both players draw from one common pool with no duplication: in every
\* state reachable through the public operations of the deck, the players and
\* the game, no card appears more than once across the two hands.
C12_NoCardHeldTwice ==
    \A c \in Range(hand1 \o hand2) : Count(hand1 \o hand2, c) = 1

\* C13: Player.draw_one on a non-empty shared deck makes exactly one
\* Deck.draw_one (the front card leaves the draw pile for the discard pile),
\* appends that card to the end of the calling player's hand and returns it,
\* and leaves the other hand unchanged; on an empty draw pile the error of
\* Deck.draw_one (EmptyDeck, here IndexError) propagates and both hands and
\* both piles stay as they were.
C13_PlayerDrawOneDrawsOnce ==
    [][\A p \in {1, 2} :
          (last'.op = "Player.draw_one" /\ last'.who = p) =>
              /\ (IF p = 1 THEN hand2' ELSE hand1') = Hand(Game, 3 - p)
              /\ IF cards # <<>>
                 THEN /\ last'.err = NoError
                      /\ last'.ret = <<Head(cards)>>
                      /\ cards' = Tail(cards)
                      /\ pile' = Append(pile, Head(cards))
                      /\ (IF p = 1 THEN hand1' ELSE hand2') =
                             Append(Hand(Game, p), Head(cards))
                 ELSE /\ last'.err = IndexError
                      /\ last'.ret = <<>>
                      /\ UNCHANGED <<cards, pile, hand1, hand2>>]_vars

C13_Witness ==
    /\ last.op = "Player.draw_one"
    /\ last.who = 2
    /\ last.err = NoError
    /\ Len(hand2) > 1
    /\ hand1 # <<>>
    /\ hand2[Len(hand2)] = last.ret[1]

\* C14: the Card order is a strict total order on the 52 cards, consistent
\* with equality: of A < B, A == B, B < A exactly one holds; A < B and B < C
\* give A < C; A == B iff suit and value match; A < B iff A's suit is lower,
\* or the suits are equal and A's value is lower; and <=, >, >=, != agree
\* with the order.
C14_CardOrderIsStrictTotal ==
    last.op = "Card.compare" =>
        LET is == last.ret
        IN  /\ \A i, j \in 1..3 :
                 LET A == args[i]
                     B == args[j]
                 IN  /\ Cardinality({k \in 1..3 :
                            <<is[i][j].lt, is[i][j].eq, is[j][i].lt>>[k]}) = 1
                     /\ is[i][j].eq <=> (A.suit = B.suit /\ A.value = B.value)
                     /\ is[i][j].lt <=>
                           (A.suit < B.suit \/ (A.suit = B.suit /\ A.value < B.value))
                     /\ is[i][j].le <=> (is[i][j].lt \/ is[i][j].eq)
                     /\ is[i][j].gt <=> is[j][i].lt
                     /\ is[i][j].ge <=> (is[j][i].lt \/ is[i][j].eq)
                     /\ is[i][j].ne <=> ~is[i][j].eq
            /\ (is[1][2].lt /\ is[2][3].lt) => is[1][3].lt

C14_Witness ==
    /\ last.op = "Card.compare"
    /\ args[1].suit < args[2].suit
    /\ args[1].value > args[2].value
    /\ last.ret[1][2].lt
    /\ last.ret[2][3].lt
    /\ args[2].suit = args[3].suit

\* C15: for every suit of the four and every integer value in [2, 14], Card
\* construction succeeds and the card's points are suit * value; for a value
\* outside [2, 14] or a suit outside the four, construction fails (InvalidCard,
\* here the AssertionError of a failing assert) and no Card is produced.
C15_CardInitChecksSuitAndValue ==
    last.op = "Card" =>
        LET suit == args[1]
            value == args[2]
        IN  /\ (suit \in {1, 2, 3, 4} /\ value.int /\ value.n \in 2..14) =>
                  /\ last.err = NoError
                  /\ Len(last.ret) = 1
                  /\ last.ret[1].suit = suit
                  /\ last.ret[1].value = value.n
                  /\ Points(last.ret[1]) = suit * value.n
            /\ (suit \notin {1, 2, 3, 4} \/ value.n \notin 2..14) =>
                  /\ last.err = AssertionError
                  /\ last.ret = <<>>

C15_Witness ==
    /\ last.op = "Card"
    /\ last.err = AssertionError
    /\ args[1] = CLUB
    /\ args[2].int
    /\ args[2].n = MaxCardValue + 1

\* the sum of suit * value over the cards of a hand
RECURSIVE PointsTotal(_)
PointsTotal(hand) ==
    IF Len(hand) = 0 THEN 0
    ELSE PointsTotal(SubSeq(hand, 1, Len(hand) - 1))
            + hand[Len(hand)].suit * hand[Len(hand)].value

\* C16: Player.hand_value is the sum of the points (suit * value) of the cards
\* now in the hand, 0 for an empty hand, and reading it changes neither hand nor
\* the deck; each successful Player.draw_one raises the player's hand_value by
\* the points of the card drawn, which are positive.
C16_HandValueIsThePointsTotal ==
    [][\A p \in {1, 2} :
          /\ (last'.op = "Player.hand_value" /\ last'.who = p) =>
                /\ last'.err = NoError
                /\ last'.ret = <<PointsTotal(Hand(Game, p))>>
                /\ Hand(Game, p) = <<>> => last'.ret = <<0>>
                /\ UNCHANGED <<cards, pile, hand1, hand2>>
          /\ (last'.op = "Player.draw_one" /\ last'.who = p /\ last'.err = NoError) =>
                LET c == last'.ret[1]
                IN  /\ c.suit * c.value > 0
                    /\ HandValue(IF p = 1 THEN hand1' ELSE hand2') =
                          HandValue(Hand(Game, p)) + c.suit * c.value]_vars

C16_Witness ==
    /\ last.op = "Player.hand_value"
    /\ last.who = 2
    /\ Len(hand2) > 1
    /\ last.ret[1] > hand2[1].suit * hand2[1].value
    /\ hand1 # <<>>

\* C17: Player.reset empties that player's hand (hand_value 0) whatever it
\* held, a second reset changes nothing more, and the draw pile, the discard
\* pile and the other player's hand stay as they were.
C17_ResetEmptiesOneHand ==
    [][\A p \in {1, 2} :
          (last'.op = "Player.reset" /\ last'.who = p) =>
              LET after == [cards |-> cards', pile |-> pile',
                            hand1 |-> hand1', hand2 |-> hand2']
              IN  /\ last'.err = NoError
                  /\ Hand(after, p) = <<>>
                  /\ HandValue(Hand(after, p)) = 0
                  /\ Hand(after, 3 - p) = Hand(Game, 3 - p)
                  /\ UNCHANGED <<cards, pile>>
                  /\ PlayerReset(after, p) = after]_vars

C17_Witness ==
    /\ last.op = "Player.reset"
    /\ last.who = 1
    /\ Before.len1 > 1
    /\ hand1 = <<>>
    /\ hand2 # <<>>
    /\ pile # <<>>

\* C18: combine_deck_and_pile makes the draw pile the old draw pile followed by
\* the old discard pile in its order and empties the discard pile; applied a
\* second time it changes nothing.
C18_CombineAppendsThePile ==
    last.op = "Deck.combine_deck_and_pile" =>
        /\ last.err = NoError
        /\ cards = Before.cards \o Before.pile
        /\ pile = <<>>
        /\ CombineDeckAndPile(Game) = Game

C18_Witness ==
    /\ last.op = "Deck.combine_deck_and_pile"
    /\ Len(Before.pile) > 1
    /\ Before.cards # <<>>
    /\ cards # ALL_CARDS

\* self.cards as step i of the shuffle loop finds it, the steps running from
\* Len(cs) - 1 down to 0 with the choices r
RECURSIVE WorkingSet(_, _, _)
WorkingSet(cs, r, i) ==
    IF i >= Len(cs) - 1 THEN cs
    ELSE PopRest(WorkingSet(cs, r, i + 1), r[i + 1])

\* the card step i removes
RemovedAt(cs, r, i) == PopItem(WorkingSet(cs, r, i), r[i])

\* C20 as stated: in shuffle, for i from DeckSize - 1 (51) down to 0, the card
\* removed from the working set at step i becomes position i of the resulting
\* draw pile.
C20_RemovedCardTakesPositionI ==
    last.op = "Deck.shuffle" =>
        LET in == Before.cards \o Before.pile
        IN  \A i \in 0..(Len(in) - 1) : cards[i + 1] = RemovedAt(in, last.rand, i)

\* C20 amended: the card removed at step i is appended to the result, so it
\* becomes position (DeckSize - 1) - i of the resulting draw pile: the card
\* removed first, at step DeckSize - 1, is the front card.
C20_RemovedCardTakesPositionFromEnd ==
    last.op = "Deck.shuffle" =>
        LET in == Before.cards \o Before.pile
        IN  /\ Len(cards) = Len(in)
            /\ \A i \in 0..(Len(in) - 1) :
                  cards[((Len(in) - 1) - i) + 1] = RemovedAt(in, last.rand, i)

C20_Witness ==
    /\ last.op = "Deck.shuffle"
    /\ Len(cards) = ShuffleLen
    /\ last.rand[ShuffleLen - 1] = 1
    /\ Head(cards) = Before.cards[2]
    /\ cards[ShuffleLen] # Before.cards[2]

\* C19: the game is fair between the two players: of the orderings the shuffle
\* can give, as many make play() return Player 1 as make it return Player 2,
\* and both numbers are not zero.  Once a round has been played on every deal,
\* the two tallies are equal and positive.
C19_PlayIsFair ==
    reorders = NumDeals =>
        /\ win_count[Player1] = win_count[Player2]
        /\ win_count[Player1] > 0
        /\ win_count[Player1] + win_count[Player2] + win_count[None] = NumDeals

C19_Witness ==
    /\ reorders = NumDeals
    /\ last.op = "Game.play"
    /\ win_count[Player2] > 0
    /\ win_count[None] > 0

\* C21: every Deck operation but draw_one on an empty draw pile is total:
\* shuffle, sort and combine_deck_and_pile end without error in every reachable
\* state; at step i of shuffle's DeckSize (52) steps the working set holds
\* i + 1 cards, so the index chosen in [0, i] is valid, and the working set is
\* empty when the loop ends.
C21_DeckOperationsAreTotal ==
    /\ last.op \in {"Deck.shuffle", "Deck.sort", "Deck.combine_deck_and_pile"} =>
          last.err = NoError
    /\ last.op = "Deck.shuffle" =>
          LET in == Before.cards \o Before.pile
          IN  /\ Len(in) = DeckSize
              /\ \A i \in 0..(DeckSize - 1) :
                    /\ Len(WorkingSet(in, last.rand, i)) = i + 1
                    /\ last.rand[i] \in 0..i
              /\ PopRest(WorkingSet(in, last.rand, 0), last.rand[0]) = <<>>

C21_Witness ==
    /\ last.op = "Deck.shuffle"
    /\ last.err = NoError
    /\ Before.cards = <<>>
    /\ Len(Before.pile) = DeckSize
    /\ reorders = MaxReorders

\* C22: from a full draw pile (new, or just after shuffle, sort or
\* combine_deck_and_pile) exactly DeckSize (52) consecutive draw_one calls
\* succeed, each returning a card not returned before, so that all cards are
\* returned once; the next draw_one fails (EmptyDeck, here IndexError); and the
\* draw_one that follows a shuffle, sort or combine_deck_and_pile succeeds,
\* also after such a failure.
C22_FullPileGivesEveryCardOnce ==
    [][last'.op = "Deck.draw_one" =>
          /\ Len(cards) + Len(drawn) = DeckSize
          /\ Len(drawn) < DeckSize =>
                /\ last'.err = NoError
                /\ Len(last'.ret) = 1
                /\ last'.ret[1] \notin Range(drawn)
                /\ drawn' = Append(drawn, last'.ret[1])
          /\ Len(drawn) = DeckSize =>
                /\ last'.err = IndexError
                /\ last'.ret = <<>>
                /\ \A c \in Range(ALL_CARDS) : Count(drawn, c) = 1
          /\ last.op \in {"new", "Deck.shuffle", "Deck.sort",
                          "Deck.combine_deck_and_pile"} =>
                /\ Len(cards) = DeckSize
                /\ last'.err = NoError]_vars

C22_Witness ==
    /\ last.op = "Deck.draw_one"
    /\ last.err = IndexError
    /\ Len(drawn) = DeckSize
    /\ drawn # ALL_CARDS
    /\ cards = <<>>

\* the round state of the game: Dealing from the end of the shuffle to the end
\* of the sixth draw, Scored once the hands are compared, Idle otherwise
Phase(at) ==
    IF at.at = "draw_cards" THEN "Dealing"
    ELSE IF at.at = "return" THEN "Scored"
    ELSE "Idle"

\* C23: each play() goes Idle -> Dealing -> Scored -> Idle: both hands are
\* reset and the deck is shuffled before the first draw of the round; between
\* the first and the sixth draw there is no reset and no shuffle, and each
\* draw adds one card to the hand of the player who draws and leaves the other
\* hand alone; the hands are compared only after all six draws, each hand
\* holding three cards.
C23_PlayFollowsTheRoundOrder ==
    [][/\ Phase(pc') # Phase(pc) =>
             <<Phase(pc), Phase(pc')>> \in
                 {<<"Idle", "Dealing">>, <<"Dealing", "Scored">>, <<"Scored", "Idle">>}
       /\ (Phase(pc) = "Idle" /\ Phase(pc') = "Dealing") =>
             /\ last'.op = "Deck.shuffle"
             /\ last.op = "Player.reset"
             /\ hand1' = <<>> /\ hand2' = <<>>
             /\ pile' = <<>> /\ Len(cards') = DeckSize
             /\ pc'.n = 0
       /\ (Phase(pc) = "Dealing" /\ Phase(pc') = "Dealing") =>
             /\ last'.op = "Player.draw_one"
             /\ pc'.n = pc.n + 1
             /\ Len(hand1') + Len(hand2') = pc'.n
             /\ \/ hand1' = Append(hand1, last'.ret[1]) /\ hand2' = hand2
                \/ hand2' = Append(hand2, last'.ret[1]) /\ hand1' = hand1
             /\ Len(hand1') - Len(hand2') \in {0, 1}
       /\ last'.op = "Game.compare_hands" =>
             /\ Phase(pc) = "Dealing" /\ Phase(pc') = "Scored"
             /\ pc.n = DealCount
             /\ Len(hand1) = DealRounds /\ Len(hand2) = DealRounds
             /\ UNCHANGED <<cards, pile, hand1, hand2>>
       /\ (Phase(pc) = "Scored" /\ Phase(pc') = "Idle") =>
             /\ last'.op = "Game.play"
             /\ last'.winner = last.winner
             /\ UNCHANGED <<cards, pile, hand1, hand2>>]_vars

C23_Witness ==
    /\ pc = Idle
    /\ last.op = "Game.play"
    /\ reorders = MaxReorders
    /\ Len(hand1) = DealRounds
    /\ Len(hand2) = DealRounds
    /\ last.winner = Player2

\* the list s without the cards of the set gone
RECURSIVE Without(_, _)
Without(s, gone) ==
    IF s = <<>> THEN <<>>
    ELSE IF Head(s) \in gone THEN Without(Tail(s), gone)
    ELSE <<Head(s)>> \o Without(Tail(s), gone)

\* The choices of randint under which the shuffle loop turns the list in into
\* its ordering out, from step i down to step 0: step i takes out[Len(in) - i]
\* from what the earlier steps left
RECURSIVE ChoicesFrom(_, _, _)
ChoicesFrom(left, out, i) ==
    LET c == out[Len(out) - i]
        k == CHOOSE k \in 1..Len(left) : left[k] = c
    IN  IF i = 0 THEN (0 :> k - 1)
        ELSE (i :> k - 1) @@ ChoicesFrom(Without(left, {c}), out, i - 1)

ChoicesFor(in, out) == ChoicesFrom(in, out, Len(in) - 1)

\* C24: rounds are history-independent: whatever hands and pile split earlier
\* calls left, play() has the same possible outcomes (hands, piles, winner) as
\* on a new game.  Every outcome play() has from this state under the random
\* source, it has on a new game under the choices that give the same deck
\* order, and the other way round.
C24_PlayIsHistoryIndependent ==
    pc = Idle =>
        \A r \in RandomSource :
            \A here \in {Play(Game, r)}, new \in {Play(NewGame, r)} :
                /\ here.err = NoError
                /\ Play(NewGame, ChoicesFor(NewGame.cards, here.deal)) = here
                /\ Play(Game, ChoicesFor(cards \o pile, new.deal)) = new

C24_Witness ==
    /\ pc = Idle
    /\ last.op = "Deck.draw_one"
    /\ last.err = NoError
    /\ reorders > 0
    /\ Len(pile) > DealCount
    /\ Len(hand1) = DealRounds
    /\ cards \o pile # ALL_CARDS

\* the message with this text is among those printed
Says(out, text) == \E k \in 1..Len(out) : out[k][1] = text

\* C25: when the game is not quiet, the message of compare_hands agrees with
\* the value returned: "Player 1 wins!" exactly when Player 1 is returned,
\* "Player 2 wins!" exactly when Player 2 is returned, and "Players tie and
\* there is no winner!" exactly when no winner is returned; when the game is
\* quiet, draw_cards, compare_hands and play print nothing.
C25_MessageAgreesWithWinner ==
    /\ (~quiet /\ last.op \in {"Game.compare_hands", "Game.play"}
               /\ last.err = NoError) =>
          /\ Says(last.out, "Player 1 wins!") <=> last.winner = Player1
          /\ Says(last.out, "Player 2 wins!") <=> last.winner = Player2
          /\ Says(last.out, "Players tie and there is no winner!") <=>
                last.winner = None
          /\ last.winner \in {Player1, Player2, None}
    /\ (quiet /\ last.op \in {"Game.draw_cards", "Game.compare_hands", "Game.play"}) =>
          last.out = <<>>

C25_Witness ==
    /\ ~quiet
    /\ last.op = "Game.compare_hands"
    /\ last.winner = None
    /\ hand1 # <<>>
    /\ Says(last.out, "Players tie and there is no winner!")

====
